---- MODULE Spec2Model ----
(***************************************************************************)
(* Model of product_service.py: an HTTP handler over the process-wide      *)
(* dict `products` (id string -> {"name", "price"}), one do_<METHOD> per    *)
(* HTTP method.  Strings (paths, ids, names) are sequences of one-character *)
(* strings so that split, startswith, strip, int() and str() are computed   *)
(* as Python computes them.  The dict is a sequence of entries in insertion *)
(* order, as a Python dict is.                                              *)
(***************************************************************************)
EXTENDS Integers, Sequences, FiniteSets, TLC

VARIABLES products, req, resp, before, issued, last

vars == <<products, req, resp, before, issued, last>>

\* Bound of the model: creates are explored while the new id is at most MaxId.
MaxId == 3

(***************************************************************************)
(* Strings                                                                 *)
(***************************************************************************)
Digits == <<"0", "1", "2", "3", "4", "5", "6", "7", "8", "9">>

Whitespace == {" "}

DigitVal(c) == (CHOOSE i \in 1..10 : Digits[i] = c) - 1

IsDecimal(s) == Len(s) > 0 /\ \A i \in 1..Len(s) : \E d \in 1..10 : Digits[d] = s[i]

RECURSIVE StrToInt(_)
\* int(pid) of a decimal-digit string
StrToInt(s) ==
    IF Len(s) = 0 THEN 0
    ELSE 10 * StrToInt(SubSeq(s, 1, Len(s) - 1)) + DigitVal(s[Len(s)])

RECURSIVE IntToStr(_)
\* str(n) of a non-negative integer
IntToStr(n) ==
    IF n < 10 THEN <<Digits[n + 1]>>
    ELSE Append(IntToStr(n \div 10), Digits[(n % 10) + 1])

RECURSIVE lstrip(_)
lstrip(s) == IF Len(s) > 0 /\ Head(s) \in Whitespace THEN lstrip(Tail(s)) ELSE s

RECURSIVE rstrip(_)
rstrip(s) ==
    IF Len(s) > 0 /\ s[Len(s)] \in Whitespace
    THEN rstrip(SubSeq(s, 1, Len(s) - 1))
    ELSE s

\* str.strip()
strip(s) == rstrip(lstrip(s))

\* str.startswith(prefix)
startswith(s, prefix) ==
    Len(s) >= Len(prefix) /\ SubSeq(s, 1, Len(prefix)) = prefix

\* s.split('/')[-1]: the characters after the last '/'
LastSegment(s) ==
    LET slashes == {i \in 1..Len(s) : s[i] = "/"}
        cut == IF slashes = {} THEN 0
               ELSE CHOOSE i \in slashes : \A j \in slashes : j <= i
    IN SubSeq(s, cut + 1, Len(s))

\* needle in haystack, for two str values
Contains(haystack, needle) ==
    \E i \in 1..(Len(haystack) - Len(needle) + 1) :
        SubSeq(haystack, i, i + Len(needle) - 1) = needle

ProductsPath == <<"/", "p", "r", "o", "d", "u", "c", "t", "s">>

ProductsPrefix == Append(ProductsPath, "/")

NameKey == <<"n", "a", "m", "e">>

PriceKey == <<"p", "r", "i", "c", "e">>

(***************************************************************************)
(* JSON values as json.loads yields them.  n is the numeric value (a float  *)
(* is given in tenths), s the characters of a str.  Absent marks a key the  *)
(* object does not have; NaN is the float json.loads reads from `NaN`.      *)
(***************************************************************************)
JStr(s) == [t |-> "str", s |-> s, n |-> 0]

JInt(n) == [t |-> "int", s |-> <<>>, n |-> n]

JFloat(n) == [t |-> "float", s |-> <<>>, n |-> n]

JBool(b) == [t |-> "bool", s |-> <<>>, n |-> IF b THEN 1 ELSE 0]

JNaN == [t |-> "nan", s |-> <<>>, n |-> 0]

JNull == [t |-> "null", s |-> <<>>, n |-> 0]

Absent == [t |-> "absent", s |-> <<>>, n |-> 0]

\* isinstance(v, str)
IsStr(v) == v.t = "str"

\* isinstance(v, int): bool is a subclass of int
IsInt(v) == v.t \in {"int", "bool"}

\* isinstance(v, float): NaN is a float
IsFloat(v) == v.t \in {"float", "nan"}

\* v < 0 for a number; every comparison with NaN is False
LtZero(v) == v.t # "nan" /\ v.n < 0

\* not isinstance(name, str) or not name.strip()
NameInvalid(name) == ~IsStr(name) \/ Len(strip(name.s)) = 0

\* not (isinstance(price, int) or isinstance(price, float)) or price < 0
PriceInvalid(price) == ~(IsInt(price) \/ IsFloat(price)) \/ LtZero(price)

(***************************************************************************)
(* The dict `products`: entries [id, name, price] in insertion order.       *)
(***************************************************************************)
Entry(id, name, price) == [id |-> id, name |-> name, price |-> price]

Keys(d) == {d[i].id : i \in 1..Len(d)}

\* product_id in products
Has(d, id) == id \in Keys(d)

\* products[product_id]
Lookup(d, id) == d[CHOOSE i \in 1..Len(d) : d[i].id = id]

\* products[id] = {"name": name, "price": price}
SetItem(d, id, name, price) ==
    IF Has(d, id)
    THEN [i \in 1..Len(d) |-> IF d[i].id = id THEN Entry(id, name, price) ELSE d[i]]
    ELSE Append(d, Entry(id, name, price))

\* A slip in the name update: the record is replaced by one that has only
\* the name.
SetNameOnly(d, id, name) ==
    [i \in 1..Len(d) |-> IF d[i].id = id THEN Entry(id, name, JNull) ELSE d[i]]

\* products[id]["name"] = name
SetName(d, id, name) ==
    [i \in 1..Len(d) |-> IF d[i].id = id THEN [d[i] EXCEPT !.name = name] ELSE d[i]]

\* products[id]["price"] = price
SetPrice(d, id, price) ==
    [i \in 1..Len(d) |-> IF d[i].id = id THEN [d[i] EXCEPT !.price = price] ELSE d[i]]

\* A slip in the delete: the oldest entry is removed, whatever the id.
DelOldest(d, id) == Tail(d)

\* del products[id]
DelItem(d, id) == SelectSeq(d, LAMBDA e : e.id # id)

\* list(products.values())
Values(d) == [i \in 1..Len(d) |-> [name |-> d[i].name, price |-> d[i].price]]

(***************************************************************************)
(* Request bodies.  kind says what the raw bytes are: "empty" (no body, or  *)
(* no usable Content-Length), "badutf8" (bytes that are not UTF-8),         *)
(* "badjson" (text json.loads rejects), or the type of the JSON value:      *)
(* "object" (its name and price members, Absent when the key is missing),   *)
(* "array" (elems), "string" (s), "number", "null".                         *)
(***************************************************************************)
RawBody(kind, name, price, elems, s) ==
    [kind |-> kind, name |-> name, price |-> price, elems |-> elems, s |-> s]

ObjectBody(name, price) == RawBody("object", name, price, <<>>, <<>>)

EmptyBody == RawBody("empty", Absent, Absent, <<>>, <<>>)

BadUtf8Body == RawBody("badutf8", Absent, Absent, <<>>, <<>>)

BadJsonBody == RawBody("badjson", Absent, Absent, <<>>, <<>>)

ArrayBody(elems) == RawBody("array", Absent, Absent, elems, <<>>)

StringBody(s) == RawBody("string", Absent, Absent, <<>>, s)

NumberBody == RawBody("number", Absent, Absent, <<>>, <<>>)

NullBody == RawBody("null", Absent, Absent, <<>>, <<>>)

\* json.loads(raw_body.decode('utf-8') or '{}'): the exception raised ("" when
\* none) and the value
json_loads(body) ==
    CASE body.kind = "badutf8" -> [raised |-> "UnicodeDecodeError", payload |-> body]
      [] body.kind = "badjson" -> [raised |-> "JSONDecodeError", payload |-> body]
      [] body.kind = "empty" -> [raised |-> "", payload |-> ObjectBody(Absent, Absent)]
      [] OTHER -> [raised |-> "", payload |-> body]

\* payload.get(key): only a dict has .get; a missing key gives None
GetRaises(payload) == payload.kind # "object"

PayloadGet(payload, key) ==
    LET v == IF key = NameKey THEN payload.name ELSE payload.price
    IN IF v = Absent THEN JNull ELSE v

\* key in payload: membership for a dict or a list, substring for a str,
\* TypeError for a number or None
InRaises(payload) == payload.kind \in {"number", "null"}

PayloadHas(payload, key) ==
    CASE payload.kind = "object" ->
            (IF key = NameKey THEN payload.name ELSE payload.price) # Absent
      [] payload.kind = "array" ->
            \E i \in 1..Len(payload.elems) : payload.elems[i] = JStr(key)
      [] payload.kind = "string" -> Contains(payload.s, key)
      [] OTHER -> FALSE

(***************************************************************************)
(* Responses.  shape says what the JSON body is: "error" ({"error": error   *)
(* + detail}), "product" ({"id", "name", "price"}), "record" (the stored    *)
(* {"name", "price"}), "list" (items), or "none" when the handler ended     *)
(* with an exception and nothing was sent.                                  *)
(***************************************************************************)
Response(status, shape, error, detail, id, name, price, items) ==
    [status |-> status, shape |-> shape, error |-> error, detail |-> detail,
     id |-> id, name |-> name, price |-> price, items |-> items]

ErrorResponse(status, error) ==
    Response(status, "error", error, "", <<>>, <<>>, JNull, <<>>)

InternalError(e) ==
    Response(500, "error", "Internal server error: ", e, <<>>, <<>>, JNull, <<>>)

ProductResponse(status, id, e) ==
    Response(status, "product", "", "", id, e.name, e.price, <<>>)

RecordResponse(e) ==
    Response(200, "record", "", "", <<>>, e.name, e.price, <<>>)

ListResponse(items) ==
    Response(200, "list", "", "", <<>>, <<>>, JNull, items)

NoResponse == Response(0, "none", "", "", <<>>, <<>>, JNull, <<>>)

EndpointNotFound == ErrorResponse(404, "Endpoint not found")

ProductNotFound == ErrorResponse(404, "Product not found")

InvalidJson == ErrorResponse(400, "Invalid JSON payload")

NameRequired ==
    ErrorResponse(400, "Field 'name' is required and must be a non-empty string")

PriceRequired ==
    ErrorResponse(400, "Field 'price' is required and must be a non-negative number")

\* What a handler leaves behind: the store and the response it sent.
Result(d, r) == [products |-> d, resp |-> r]

(***************************************************************************)
(* The handlers, each as the store and response it leaves from store d.     *)
(***************************************************************************)
Max(S) == CHOOSE x \in S : \A y \in S : y <= x

\* int(pid) raises ValueError on a key that is not a number
IntRaises(d) == \E k \in Keys(d) : ~IsDecimal(k)

\* A slip in the id rule: the number of records + 1 instead of the maximum + 1.
NewIdByCount(d) == IntToStr(Len(d) + 1)

\* max(int(pid) for pid in products.keys()) + 1 as a string, '1' on an empty store
NewId(d) ==
    IF Len(d) > 0
    THEN IntToStr(Max({StrToInt(k) : k \in Keys(d)}) + 1)
    ELSE <<"1">>

GET(d, path) ==
    IF path = ProductsPath
    THEN Result(d, ListResponse(Values(d)))
    ELSE IF startswith(path, ProductsPrefix)
    THEN LET product_id == LastSegment(path)
         IN IF Has(d, product_id)
            THEN Result(d, RecordResponse(Lookup(d, product_id)))
            ELSE Result(d, ProductNotFound)
    ELSE Result(d, EndpointNotFound)

\* A slip in the create: the submitted name is stored as sent, and trimmed
\* only in the response.
CreateStoresRawName(d, payload) ==
    LET name == PayloadGet(payload, NameKey)
        price == PayloadGet(payload, PriceKey)
        new_id == NewId(d)
        stored == SetItem(d, new_id, name.s, price)
    IN IF GetRaises(payload) THEN Result(d, InternalError("AttributeError"))
       ELSE IF NameInvalid(name) THEN Result(d, NameRequired)
       ELSE IF PriceInvalid(price) THEN Result(d, PriceRequired)
       ELSE IF IntRaises(d) THEN Result(d, InternalError("ValueError"))
       ELSE Result(stored,
                   ProductResponse(201, new_id, Entry(new_id, strip(name.s), price)))

\* A slip in the create: the price is checked before the name.
CreateChecksPriceFirst(d, payload) ==
    LET name == PayloadGet(payload, NameKey)
        price == PayloadGet(payload, PriceKey)
        new_id == NewId(d)
        stored == SetItem(d, new_id, strip(name.s), price)
    IN IF GetRaises(payload) THEN Result(d, InternalError("AttributeError"))
       ELSE IF PriceInvalid(price) THEN Result(d, PriceRequired)
       ELSE IF NameInvalid(name) THEN Result(d, NameRequired)
       ELSE IF IntRaises(d) THEN Result(d, InternalError("ValueError"))
       ELSE Result(stored, ProductResponse(201, new_id, Lookup(stored, new_id)))

\* The body of do_POST's try block once the payload is parsed.
Create(d, payload) ==
    LET name == PayloadGet(payload, NameKey)
        price == PayloadGet(payload, PriceKey)
        new_id == NewId(d)
        stored == SetItem(d, new_id, strip(name.s), price)
    IN IF GetRaises(payload) THEN Result(d, InternalError("AttributeError"))
       ELSE IF NameInvalid(name) THEN Result(d, NameRequired)
       ELSE IF PriceInvalid(price) THEN Result(d, PriceRequired)
       ELSE IF IntRaises(d) THEN Result(d, InternalError("ValueError"))
       ELSE Result(stored, ProductResponse(201, new_id, Lookup(stored, new_id)))

POST(d, path, body) ==
    IF path = ProductsPath
    THEN LET parsed == json_loads(body)
         IN CASE parsed.raised = "UnicodeDecodeError" ->
                    Result(d, InternalError("UnicodeDecodeError"))
              [] parsed.raised = "JSONDecodeError" -> Result(d, InvalidJson)
              [] OTHER -> Create(d, parsed.payload)
    ELSE Result(d, EndpointNotFound)

\* do_PUT after _read_json_body returned a payload
Replace(d, product_id, payload) ==
    LET name == PayloadGet(payload, NameKey)
        price == PayloadGet(payload, PriceKey)
        stored == SetItem(d, product_id, strip(name.s), price)
    IN IF GetRaises(payload) THEN Result(d, NoResponse)
       ELSE IF NameInvalid(name) THEN Result(d, NameRequired)
       ELSE IF PriceInvalid(price) THEN Result(d, PriceRequired)
       ELSE Result(stored, ProductResponse(200, product_id, Lookup(stored, product_id)))

\* A slip in the replace: the body is read and parsed before the id is looked
\* up, so a bad body on an absent id is answered 400.
PutParsesFirst(d, path, body) ==
    IF startswith(path, ProductsPrefix)
    THEN LET product_id == LastSegment(path)
             parsed == json_loads(body)
         IN CASE parsed.raised = "UnicodeDecodeError" -> Result(d, NoResponse)
              [] parsed.raised = "JSONDecodeError" -> Result(d, InvalidJson)
              [] ~Has(d, product_id) -> Result(d, ProductNotFound)
              [] OTHER -> Replace(d, product_id, parsed.payload)
    ELSE Result(d, EndpointNotFound)

PUT(d, path, body) ==
    IF startswith(path, ProductsPrefix)
    THEN LET product_id == LastSegment(path)
             parsed == json_loads(body)
         IN IF ~Has(d, product_id) THEN Result(d, ProductNotFound)
            ELSE CASE parsed.raised = "UnicodeDecodeError" -> Result(d, NoResponse)
                   [] parsed.raised = "JSONDecodeError" -> Result(d, InvalidJson)
                   [] OTHER -> Replace(d, product_id, parsed.payload)
    ELSE Result(d, EndpointNotFound)

\* The name step of do_PATCH: [raised, failed, products]
PatchName(d, product_id, payload) ==
    LET name == PayloadGet(payload, NameKey)
    IN IF InRaises(payload) THEN [raised |-> TRUE, failed |-> FALSE, products |-> d]
       ELSE IF ~PayloadHas(payload, NameKey)
       THEN [raised |-> FALSE, failed |-> FALSE, products |-> d]
       ELSE IF GetRaises(payload) THEN [raised |-> TRUE, failed |-> FALSE, products |-> d]
       ELSE IF NameInvalid(name) THEN [raised |-> FALSE, failed |-> TRUE, products |-> d]
       ELSE [raised |-> FALSE, failed |-> FALSE,
             products |-> SetName(d, product_id, strip(name.s))]

\* The price step of do_PATCH, from the store the name step left
PatchPrice(d, product_id, payload) ==
    LET price == PayloadGet(payload, PriceKey)
    IN IF InRaises(payload) THEN [raised |-> TRUE, failed |-> FALSE, products |-> d]
       ELSE IF ~PayloadHas(payload, PriceKey)
       THEN [raised |-> FALSE, failed |-> FALSE, products |-> d]
       ELSE IF GetRaises(payload) THEN [raised |-> TRUE, failed |-> FALSE, products |-> d]
       ELSE IF PriceInvalid(price) THEN [raised |-> FALSE, failed |-> TRUE, products |-> d]
       ELSE [raised |-> FALSE, failed |-> FALSE,
             products |-> SetPrice(d, product_id, price)]

\* do_PATCH after _read_json_body returned a payload
Patch(d, product_id, payload) ==
    LET n == PatchName(d, product_id, payload)
        p == PatchPrice(n.products, product_id, payload)
    IN IF n.raised THEN Result(n.products, NoResponse)
       ELSE IF n.failed THEN Result(n.products, NameRequired)
       ELSE IF p.raised THEN Result(p.products, NoResponse)
       ELSE IF p.failed THEN Result(p.products, PriceRequired)
       ELSE Result(p.products,
                   ProductResponse(200, product_id, Lookup(p.products, product_id)))

PATCH(d, path, body) ==
    IF startswith(path, ProductsPrefix)
    THEN LET product_id == LastSegment(path)
             parsed == json_loads(body)
         IN IF ~Has(d, product_id) THEN Result(d, ProductNotFound)
            ELSE CASE parsed.raised = "UnicodeDecodeError" -> Result(d, NoResponse)
                   [] parsed.raised = "JSONDecodeError" -> Result(d, InvalidJson)
                   [] OTHER -> Patch(d, product_id, parsed.payload)
    ELSE Result(d, EndpointNotFound)

DELETE(d, path) ==
    IF startswith(path, ProductsPrefix)
    THEN LET product_id == LastSegment(path)
         IN IF ~Has(d, product_id) THEN Result(d, ProductNotFound)
            ELSE Result(DelItem(d, product_id),
                        ProductResponse(200, product_id, Lookup(d, product_id)))
    ELSE Result(d, EndpointNotFound)

(***************************************************************************)
(* The requests explored.                                                  *)
(***************************************************************************)
IdPath(id) == ProductsPrefix \o id

\* /products/ : a trailing slash, whose last segment is empty
TrailingSlashPath == ProductsPrefix

\* /products/a/1 : two segments after /products
NestedPath == ProductsPrefix \o <<"a", "/", "1">>

\* /invalid_path, the path of test_invalid_endpoint
InvalidPath == <<"/", "i", "n", "v", "a", "l", "i", "d", "_", "p", "a", "t", "h">>

Paths ==
    {ProductsPath, TrailingSlashPath, NestedPath, InvalidPath}
        \cup {IdPath(IntToStr(i)) : i \in 1..MaxId}

\* name members: missing, not a string, whitespace only, padded
NameValues == {Absent, JInt(7), JStr(<<" ">>), JStr(<<" ", "a", " ">>)}

\* price members: missing, negative, zero, a float (2.5), not a number,
\* true, NaN
PriceValues ==
    {Absent, JInt(-1), JInt(0), JFloat(25), JStr(<<"f", "r", "e", "e">>),
     JBool(TRUE), JNaN}

Bodies ==
    {ObjectBody(n, p) : n \in NameValues, p \in PriceValues}
        \cup {EmptyBody, BadUtf8Body, BadJsonBody, NumberBody,
              ArrayBody(<<JInt(1)>>), StringBody(NameKey)}

Request(method, path, body) == [method |-> method, path |-> path, body |-> body]

NoRequest == Request("NONE", <<>>, EmptyBody)

\* products_data.json: missing (an empty store) or the one Laptop record
Seeds == {<<>>, <<Entry(<<"1">>, <<"L">>, JInt(1200))>>}

(***************************************************************************)
(* State.  products is the dict.  req, resp and before are the request      *)
(* being served, the response sent and the dict when it arrived; they are   *)
(* dropped when the handler instance finishes.  Two records of what the     *)
(* client has seen so far outlive the request: issued, the ids that 201     *)
(* responses have returned, and last, the outcome of the previous request   *)
(* (a create, or the latest delete with no create after it).                *)
(***************************************************************************)
Outcome(kind, id, name, price) ==
    [kind |-> kind, id |-> id, name |-> name, price |-> price]

NoOutcome == Outcome("none", <<>>, <<>>, JNull)

Init ==
    /\ products \in Seeds
    /\ req = NoRequest
    /\ resp = NoResponse
    /\ before = products
    /\ issued = {}
    /\ last = NoOutcome

\* The handler has sent its response (or raised): the store and what the
\* client saw.
Serve(request, r) ==
    /\ products' = r.products
    /\ resp' = r.resp
    /\ req' = request
    /\ before' = products
    /\ UNCHANGED <<issued, last>>

\* HTTPServer serves one request at a time: a handler runs when none is running.
Idle == req = NoRequest

do_GET ==
    /\ Idle
    /\ \E path \in Paths :
        Serve(Request("GET", path, EmptyBody), GET(products, path))

do_POST ==
    /\ Idle
    /\ \E path \in Paths, body \in Bodies :
        LET r == POST(products, path, body)
        IN /\ r.resp.status = 201 => StrToInt(r.resp.id) <= MaxId
           /\ Serve(Request("POST", path, body), r)

do_PUT ==
    /\ Idle
    /\ \E path \in Paths, body \in Bodies :
        Serve(Request("PUT", path, body), PUT(products, path, body))

do_PATCH ==
    /\ Idle
    /\ \E path \in Paths, body \in Bodies :
        Serve(Request("PATCH", path, body), PATCH(products, path, body))

do_DELETE ==
    /\ Idle
    /\ \E path \in Paths :
        Serve(Request("DELETE", path, EmptyBody), DELETE(products, path))

\* The handler returns to serve_forever; the client keeps what it was sent.
finish ==
    /\ ~Idle
    /\ req' = NoRequest
    /\ resp' = NoResponse
    /\ before' = products
    /\ issued' = IF resp.status = 201 THEN issued \cup {resp.id} ELSE issued
    /\ last' = IF resp.status = 201
               THEN Outcome("created", resp.id, resp.name, resp.price)
               ELSE IF req.method = "DELETE" /\ resp.status = 200
               THEN Outcome("deleted", resp.id, <<>>, JNull)
               ELSE IF last.kind = "deleted" THEN last
               ELSE NoOutcome
    /\ UNCHANGED products

Next == do_GET \/ do_POST \/ do_PUT \/ do_PATCH \/ do_DELETE \/ finish

Spec == Init /\ [][Next]_vars

(***************************************************************************)
(* Properties.  Answered: a request has been served and its handler has     *)
(* not yet finished, so req, resp and before describe that request.         *)
(***************************************************************************)
Answered == req # NoRequest

Created == Answered /\ req.method = "POST" /\ resp.status = 201

\* The records of d, by id, without their order.
RecordOf(d, id) == [name |-> Lookup(d, id).name, price |-> Lookup(d, id).price]

SameRecords(d, e, ids) ==
    \A id \in ids : Has(d, id) /\ Has(e, id) /\ RecordOf(d, id) = RecordOf(e, id)

\* C1: a successful create (POST /products answered 201) returns an id that
\* is not a key of the store before the request and is the decimal string of
\* the maximum numeric id before the request plus one, or "1" when the store
\* was empty; afterwards the store holds exactly the previous records plus one
\* record under that id.
C1_CreateAssignsNextId ==
    Created =>
        /\ resp.id \notin Keys(before)
        /\ IsDecimal(resp.id)
        /\ IntToStr(StrToInt(resp.id)) = resp.id
        /\ IF Keys(before) = {}
           THEN resp.id = <<"1">>
           ELSE \E k \in Keys(before) :
                    /\ StrToInt(resp.id) = StrToInt(k) + 1
                    /\ \A j \in Keys(before) : StrToInt(j) <= StrToInt(k)
        /\ Keys(products) = Keys(before) \cup {resp.id}
        /\ Len(products) = Len(before) + 1
        /\ SameRecords(products, before, Keys(before))

\* C1's case: a create served by a store of two records, whose ids are 1 and 2
\* or (after a delete) 1 and 3 or 2 and 3, answered with id 3.
C1_Witness ==
    Created /\ Len(before) = 2 /\ resp.id = <<"3">> /\ Len(products) = 3

\* C2 (the claim as stated): every record of the store has a non-empty name
\* without leading or trailing whitespace and a price that is a non-negative
\* number.
C2_StoredRecordsValid ==
    \A i \in 1..Len(products) :
        /\ Len(products[i].name) > 0
        /\ strip(products[i].name) = products[i].name
        /\ products[i].price.t \in {"int", "float"}
        /\ products[i].price.n >= 0

\* The paths the router is specified to know: /products and /products/{id}
\* with one non-empty id segment.
IsRoute(path) ==
    \/ path = ProductsPath
    \/ /\ startswith(path, ProductsPrefix)
       /\ Len(path) > Len(ProductsPrefix)
       /\ \A i \in (Len(ProductsPrefix) + 1)..Len(path) : path[i] # "/"

\* C3 (the claim as stated): a request, of any method, whose path is neither
\* /products nor /products/{id} is answered 404 "Endpoint not found" and
\* leaves the store unchanged.
C3_UnknownPathNotFound ==
    (Answered /\ ~IsRoute(req.path)) =>
        (resp = EndpointNotFound /\ products = before)

\* C4 (the claim as stated): every request is answered, with status 200, 201,
\* 400, 404 or 500, and a failure carries {error: message}.
C4_EveryRequestAnswered ==
    Answered =>
        /\ resp.status \in {200, 201, 400, 404, 500}
        /\ resp.status \in {400, 404, 500} => resp.shape = "error"

\* The request is for /products/{id} with id a key of the store it reached.
OnStored(method) ==
    /\ Answered
    /\ req.method = method
    /\ \E id \in Keys(before) : req.path = IdPath(id)

\* The request's body is a JSON object (an absent body is read as {}).
ObjectSent == req.body.kind \in {"object", "empty"}

\* C5: a successful create returns the trimmed submitted name and the
\* submitted price, and a GET /products/i issued next, i being the id the
\* create returned, is answered 200 with exactly the name and price the 201
\* response carried.
C5_GetAfterCreate ==
    /\ Created => (resp.name = strip(req.body.name.s) /\ resp.price = req.body.price)
    /\ (Answered /\ last.kind = "created" /\ req.method = "GET"
            /\ req.path = IdPath(last.id)) =>
        /\ resp.status = 200
        /\ resp.shape = "record"
        /\ resp.name = last.name
        /\ resp.price = last.price

\* C5's case: the GET that follows a create whose padded name " a " was
\* trimmed to "a".
C5_Witness ==
    /\ Answered /\ last.kind = "created" /\ req.method = "GET"
    /\ req.path = IdPath(last.id)
    /\ last.name = <<"a">> /\ resp.status = 200 /\ Len(products) >= 2

\* C6: a DELETE /products/i on an id of the store returns 200 with the
\* {id, name, price} the record held and removes exactly that record; a GET
\* or DELETE /products/i issued afterwards, with no create in between, is
\* answered 404 "Product not found".
C6_DeleteThenNotFound ==
    /\ OnStored("DELETE") =>
        LET id == LastSegment(req.path)
        IN /\ resp = ProductResponse(200, id, Lookup(before, id))
           /\ Keys(products) = Keys(before) \ {id}
           /\ Len(products) = Len(before) - 1
           /\ SameRecords(products, before, Keys(before) \ {id})
    /\ (Answered /\ last.kind = "deleted" /\ req.method \in {"GET", "DELETE"}
            /\ req.path = IdPath(last.id)) =>
        resp = ProductNotFound

\* C6's case: record 2 of a store of three was deleted, and the GET of it
\* that follows is answered 404.
C6_Witness ==
    /\ Answered /\ last.kind = "deleted" /\ last.id = <<"2">>
    /\ req.method = "GET" /\ req.path = IdPath(last.id)
    /\ resp = ProductNotFound /\ Keys(products) = {<<"1">>, <<"3">>}

\* C7: a successful PATCH /products/i whose body has only name leaves the
\* price of record i unchanged, one whose body has only price leaves its name
\* unchanged; both leave every other record unchanged and answer 200 with
\* the resulting {id, name, price}.
C7_PatchLeavesOtherField ==
    (OnStored("PATCH") /\ resp.status = 200 /\ req.body.kind = "object") =>
        LET id == LastSegment(req.path)
            onlyName == req.body.name # Absent /\ req.body.price = Absent
            onlyPrice == req.body.name = Absent /\ req.body.price # Absent
        IN (onlyName \/ onlyPrice) =>
            /\ onlyName => RecordOf(products, id).price = RecordOf(before, id).price
            /\ onlyPrice => RecordOf(products, id).name = RecordOf(before, id).name
            /\ Keys(products) = Keys(before)
            /\ Len(products) = Len(before)
            /\ SameRecords(products, before, Keys(before) \ {id})
            /\ resp = ProductResponse(200, id, Lookup(products, id))

\* C7's case: a PATCH with only a name changed the name of record 1, in a
\* store of two records.
C7_Witness ==
    /\ OnStored("PATCH") /\ resp.status = 200 /\ req.body.kind = "object"
    /\ req.body.name # Absent /\ req.body.price = Absent
    /\ req.path = IdPath(<<"1">>) /\ Len(before) = 2
    /\ RecordOf(products, <<"1">>).name # RecordOf(before, <<"1">>).name

\* What the data model admits: a name that is a string and not empty after
\* trimming, a price that is a number and not negative.
AdmissibleName(v) == v.t = "str" /\ Len(strip(v.s)) > 0

AdmissiblePrice(v) == v.t \in {"int", "float"} /\ v.n >= 0

\* C8 (the claim as stated): a PUT /products/i on an id of the store whose
\* body lacks name or price, or carries an invalid value for either, is
\* answered 400 and leaves the whole store as it was.
C8_PutInvalidLeavesStore ==
    (OnStored("PUT") /\ ObjectSent
        /\ (~AdmissibleName(req.body.name) \/ ~AdmissiblePrice(req.body.price))) =>
        (resp.status = 400 /\ products = before)

\* C9: in Create and Replace the name is checked before the price: an object
\* body whose name is missing, not a string or empty after trimming is
\* answered 400 with the name message whatever the price; the price message
\* is returned only when the name is valid and the price is missing, not a
\* number or negative.
C9_NameCheckedBeforePrice ==
    LET validated == \/ (Answered /\ req.method = "POST" /\ req.path = ProductsPath)
                     \/ OnStored("PUT")
        price == req.body.price
    IN validated =>
        /\ (ObjectSent /\ ~AdmissibleName(req.body.name)) => resp = NameRequired
        /\ resp = PriceRequired =>
            /\ ObjectSent
            /\ AdmissibleName(req.body.name)
            /\ \/ price.t \notin {"int", "float", "bool", "nan"}
               \/ price.t \in {"int", "float"} /\ price.n < 0

\* C9's case: POST /products {"price": -1} is answered with the name message.
C9_Witness ==
    /\ Answered /\ req.method = "POST" /\ req.path = ProductsPath
    /\ req.body = ObjectBody(Absent, JInt(-1))
    /\ resp = NameRequired

\* C10 (the claim as stated): an id once returned by a 201 response is never
\* returned by a later create.
C10_IdNeverReturnedAgain == Created => resp.id \notin issued

\* C10 as amended: no create returns an id under which the store still holds
\* a record, so an id a 201 response returned is returned again only after
\* that record was deleted.
C10_LiveIdNotReturnedAgain ==
    (Created /\ resp.id \in issued) => resp.id \notin Keys(before)

\* C10's case: a create returns, for a store that still holds record 1, the
\* id 2 that an earlier create returned before record 2 was deleted.
C10_Witness ==
    Created /\ resp.id \in issued /\ resp.id = <<"2">> /\ Keys(before) = {<<"1">>}

\* C11 (the claim as stated): a PATCH answered 400 leaves the store, both
\* fields of the patched record included, as it was before the request,
\* whatever the body.
C11_RejectedPatchLeavesStore ==
    (Answered /\ req.method = "PATCH" /\ resp.status = 400) => products = before

\* The request is for /products/{id} with id a number that is not a key of
\* the store it reached.
OnAbsent(method) ==
    /\ Answered
    /\ req.method = method
    /\ \E i \in 1..MaxId :
        req.path = IdPath(IntToStr(i)) /\ IntToStr(i) \notin Keys(before)

\* C12: PUT, PATCH and DELETE on /products/{id} with an id that is not a key
\* of the store are answered 404 "Product not found" whatever the body, valid,
\* failing validation or not JSON, and leave the store unchanged, with no
\* record under that id.
C12_AbsentIdNotFound ==
    \A method \in {"PUT", "PATCH", "DELETE"} :
        OnAbsent(method) =>
            /\ resp = ProductNotFound
            /\ products = before
            /\ LastSegment(req.path) \notin Keys(products)

\* C12's case: a PUT on the absent id 2 whose body is not JSON, which on a
\* stored id is answered 400, is answered 404 by a store holding record 1.
C12_Witness ==
    /\ OnAbsent("PUT") /\ req.path = IdPath(<<"2">>) /\ req.body = BadJsonBody
    /\ Keys(before) = {<<"1">>} /\ resp = ProductNotFound

====
